---- MODULE Spec2Model ----
(***************************************************************************)
(* Order execution and run loop of the trading bot (execution.py, main.py).*)
(*                                                                         *)
(* The exchange gateway, the candle fetch and the strategy are external:   *)
(* every reply they can give is drawn from a small set.  The executor's    *)
(* single field current_position, the run loop's retry counter and the     *)
(* position of the control flow inside one cycle are the program state;    *)
(* the number of orders the exchange really executed is the state of the   *)
(* environment.  A Python value that may be None is a sequence of length   *)
(* 0 (None) or 1 (the value).                                              *)
(***************************************************************************)
EXTENDS Integers, Sequences, FiniteSets, TLC

VARIABLES
    dryRun,            \* config.DRY_RUN, read once at start-up
    timeDefined,       \* the name `time` is bound in execution.py (only when it runs as a script)
    current_position,  \* OrderExecutor.current_position
    pc,                \* where the control flow is inside run_loop / run_once / the executor
    caller,            \* who started the operation: "loop" (run_loop called run_once),
                       \* "once" (run_once called on its own), "direct" (the executor called)
    signal,            \* the signal of the current cycle
    retry_count,       \* run_loop's consecutive-failure counter
    inflight,          \* the request the gateway has processed and not yet answered
    exchBuys,          \* buy orders the exchange has executed
    exchSells,         \* sell orders the exchange has executed
    notes,             \* notifications sent during the current operation
    ret,               \* what the last executor operation returned
    success,           \* what the last run_once returned
    cycles,            \* operations started so far
    cyc,               \* what happened in the current operation
    prev,              \* what happened in the operation before it
    openPositions,     \* positions recorded and not cleared since
    failStreak,        \* cycles of run_loop that failed since the last one that succeeded
    retry,             \* one call of DataHandler.retry_on_network_error
    balanceCall,       \* one call of OrderExecutor.check_balance
    breaker,           \* the CircuitBreaker of examples/example_system_risks.py
    signalCall         \* one call of TradingStrategy.check_signal

vars == << dryRun, timeDefined, current_position, pc, caller, signal, retry_count,
           inflight, exchBuys, exchSells, notes, ret, success, cycles, cyc, prev,
           openPositions, failStreak, retry, balanceCall, breaker, signalCall >>

----------------------------------------------------------------------------
(* Bounds of the model *)

MaxCycles == 6      \* cycles of run_loop
MaxCalls == 3       \* operations another caller starts

(* Program constants *)

POSITION_SIZE_USDT == 20
max_retries == 5

(* Values the collaborators can reply with *)

Prices == {0, 97, 100}
OptPrices == {<< >>} \cup {<<p>> : p \in Prices}
FreeBalances == {0, 15, 20, 25}
Signals == {"BUY", "SELL", "WAIT"}

NONE == [status |-> "NONE"]

IsNone(v) == v = << >>
IsNumber(v) == Len(v) = 1

----------------------------------------------------------------------------
(* Pure parts of the executor *)

\* a guard that never sees the position
has_open_position_never(pos) == FALSE

\* has_open_position: the idempotency guard reads the single field
has_open_position(pos) == pos # NONE

\* a sell guard that lets every call through
NoPositionToSell_never(pos) == FALSE

\* `if not self.current_position`
NoPositionToSell(pos) == pos = NONE

\* a balance check that forgets the required amount
check_balance_positive(reply, required) == reply.kind = "ok" /\ reply.free > 0

\* a check_balance that lets the buy go on when the balance cannot be read
check_balance_failopen(reply, required) ==
    IF reply.kind # "ok" THEN TRUE
    ELSE IF IsNumber(required) /\ required[1] # 0 THEN reply.free >= required[1]
    ELSE reply.free > 0

\* check_balance(currency, required_amount) on the reply of fetch_balance;
\* required is a sequence: << >> for None
check_balance(reply, required) ==
    IF reply.kind # "ok"
    THEN FALSE                       \* fetch_balance raised, or balance[currency] is missing
    ELSE IF IsNumber(required) /\ required[1] # 0
         THEN reply.free >= required[1]
         ELSE reply.free > 0

\* amount = amount_usdt / current_price, kept exact as a fraction
BuyAmount(amount_usdt, price) == [num |-> amount_usdt, den |-> price]

\* the division raises when the price is None (TypeError) or 0 (ZeroDivisionError)
DivisionRaises(price) == IsNone(price) \/ price[1] = 0

\* a profit taken relative to the exit price
ProfitPct_overexit(current_price, buy_price) ==
    [num |-> (current_price - buy_price) * 100, den |-> current_price]

\* ((current_price - buy_price) / buy_price) * 100, kept exact as a fraction
ProfitPct(current_price, buy_price) ==
    [num |-> (current_price - buy_price) * 100, den |-> buy_price]

\* the profit computation raises on a None operand or a zero entry price
ProfitRaises(current_price, buy_price) ==
    IsNone(current_price) \/ IsNone(buy_price) \/ buy_price[1] = 0

----------------------------------------------------------------------------
(* Notifications: send_line_notify never raises; it reports delivery *)

Note(kind, info, dry, delivered) ==
    [kind |-> kind, info |-> info, dry |-> dry, delivered |-> delivered]

notify_buy_order(price, amount, dry, d) == Note("buy", <<price, amount>>, dry, d)
notify_sell_order(price, profit_pct, dry, d) == Note("sell", <<price, profit_pct>>, dry, d)
notify_error(what, d) == Note("error", <<what>>, FALSE, d)

----------------------------------------------------------------------------
(* Bookkeeping of one operation *)

\* the replies of a submission that leave its outcome unknown: a ccxt.NetworkError
\* with no order in hand
Ambiguous == {"lost", "timeout"}

\* unresolved: an earlier submission ended with an ambiguous reply; nothing in the
\* program asks the exchange about an order afterwards, so it is never resolved.
\* key: the idempotency key of the request the operation submitted (None: no key)
\* ticker: what fetch_ticker gave the operation ("unread": it was not called)
NewOp(kind, sig) ==
    [kind |-> kind, signal |-> sig, posAtStart |-> current_position,
     balanceQueries |-> 0, balance |-> << >>, buySubmits |-> 0, sellSubmits |-> 0,
     reply |-> "none", finished |-> FALSE,
     unresolved |-> cyc.unresolved \/ cyc.reply \in Ambiguous, key |-> << >>,
     ticker |-> "unread"]

NoOp == [kind |-> "none", signal |-> "WAIT", posAtStart |-> NONE,
         balanceQueries |-> 0, balance |-> << >>, buySubmits |-> 0, sellSubmits |-> 0,
         reply |-> "none", finished |-> FALSE, unresolved |-> FALSE, key |-> << >>,
         ticker |-> "unread"]

NoRequest == [side |-> "none"]

\* create_market_buy_order(symbol, amount) and create_market_sell_order(symbol,
\* amount) pass no params, so no request carries a client order id
RequestKey(intent) == << >>

\* the function or object of a unit specification is not in use
NoCall == [pc |-> "none"]

\* retry_on_network_error has not been called
NoRetry == [pc |-> "none"]

----------------------------------------------------------------------------
Init ==
    /\ dryRun \in BOOLEAN
    /\ timeDefined = FALSE
    /\ current_position = NONE
    /\ pc = "idle"
    /\ caller = "loop"
    /\ signal = "WAIT"
    /\ retry_count = 0
    /\ inflight = NoRequest
    /\ exchBuys = 0
    /\ exchSells = 0
    /\ notes = << >>
    /\ ret = "none"
    /\ success = TRUE
    /\ cycles = 0
    /\ cyc = NoOp
    /\ prev = NoOp
    /\ openPositions = 0
    /\ failStreak = 0
    /\ retry = NoRetry
    /\ balanceCall = NoCall
    /\ breaker = NoCall
    /\ signalCall = NoCall

----------------------------------------------------------------------------
(* run_loop: what follows the return of run_once *)

\* a counter that a successful cycle does not reset
NextRetryCount_noreset(ok, rc) == IF ok THEN rc ELSE rc + 1

\* a counter that counts every cycle
NextRetryCount_counts(ok, rc) == rc + 1

\* retry_count after a cycle that returned ok
NextRetryCount(ok, rc) == IF ok THEN 0 ELSE rc + 1

\* a loop that breaks one failure late
LoopBreaks_late(rc) == rc > max_retries

\* `if retry_count >= max_retries: ... break`
LoopBreaks(rc) == rc >= max_retries

\* who = "loop": run_loop takes the value run_once returned, counts, and either
\* breaks (with a notification) or sleeps; who = "once": run_once just returns the
\* value; who = "direct": the executor's caller gets the executor's value
LoopAfter(who, ok, newNotes, d) ==
    IF who # "loop"
    THEN /\ pc' = "idle"
         /\ retry_count' = retry_count
         /\ failStreak' = failStreak
         /\ success' = IF who = "once" THEN ok ELSE success
         /\ notes' = newNotes
    ELSE /\ success' = ok
         /\ failStreak' = IF ok THEN 0 ELSE failStreak + 1
         /\ retry_count' = NextRetryCount(ok, retry_count)
         /\ IF LoopBreaks(NextRetryCount(ok, retry_count))
            THEN /\ pc' = "stopped"
                 /\ notes' = Append(newNotes, notify_error("stopped", d))
            ELSE /\ pc' = "idle"
                 /\ notes' = newNotes

\* a run_once that returns False when the executor returned None
Complete_strict(who, r, d) ==
    /\ current_position' = r.pos
    /\ openPositions' = openPositions + (IF r.opened THEN 1 ELSE 0)
                                      - (IF r.closed THEN 1 ELSE 0)
    /\ ret' = IF r.raised THEN "raised" ELSE r.ret
    /\ inflight' = NoRequest
    /\ IF r.raised /\ who # "direct"
       THEN LoopAfter(who, FALSE, Append(notes \o r.notes, notify_error("main loop", d)), d)
       ELSE LoopAfter(who, r.ret # "None", notes \o r.notes, d)

\* The end of an executor operation with result r.  An exception that leaves the
\* executor is caught by run_once (notify_error, return False) or reaches the
\* direct caller; otherwise run_once returns True whatever the executor returned.
Complete(who, r, d) ==
    /\ current_position' = r.pos
    /\ openPositions' = openPositions + (IF r.opened THEN 1 ELSE 0)
                                      - (IF r.closed THEN 1 ELSE 0)
    /\ ret' = IF r.raised THEN "raised" ELSE r.ret
    /\ inflight' = NoRequest
    /\ IF r.raised /\ who # "direct"
       THEN LoopAfter(who, FALSE, Append(notes \o r.notes, notify_error("main loop", d)), d)
       ELSE LoopAfter(who, TRUE, notes \o r.notes, d)

\* an executor result that changes nothing
Result(pos, rv, ns) ==
    [pos |-> pos, ret |-> rv, notes |-> ns, raised |-> FALSE,
     opened |-> FALSE, closed |-> FALSE]

Raise(pos) == [Result(pos, "none", << >>) EXCEPT !.raised = TRUE]

----------------------------------------------------------------------------
(* run_once, up to the safety check *)

\* a run_once that does not ask has_open_position before a buy
SafetyCheck_noguard(sig, pos) ==
    CASE sig = "BUY"  -> "balance"
      [] sig = "SELL" -> IF ~has_open_position(pos) THEN "return" ELSE "sell"
      [] OTHER        -> "return"

\* a run_once that takes every signal but SELL for a BUY
SafetyCheck_waitbuys(sig, pos) ==
    CASE sig = "SELL" -> IF ~has_open_position(pos) THEN "return" ELSE "sell"
      [] OTHER        -> IF has_open_position(pos) THEN "return" ELSE "balance"

\* where run_once goes after the strategy gave sig
SafetyCheck(sig, pos) ==
    CASE sig = "BUY"  -> IF has_open_position(pos) THEN "return" ELSE "balance"
      [] sig = "SELL" -> IF ~has_open_position(pos) THEN "return" ELSE "sell"
      [] OTHER        -> "return"

\* a run_once that goes on to the safety check after fetch_ohlcv returned None
RunOnceBody_ignoresFetch(who, fetched, sig, d) ==
    /\ cycles' = cycles + 1
    /\ caller' = who
    /\ prev' = cyc
    /\ UNCHANGED << balanceCall, breaker, signalCall, retry, dryRun, timeDefined, current_position, inflight, exchBuys,
                    exchSells, ret, openPositions >>
    /\ signal' = sig
    /\ IF SafetyCheck(sig, current_position) = "return"
       THEN /\ cyc' = [NewOp("cycle", IF fetched THEN sig ELSE "none")
                          EXCEPT !.finished = TRUE]
            /\ LoopAfter(who, TRUE, << >>, d)
       ELSE /\ cyc' = NewOp("cycle", IF fetched THEN sig ELSE "none")
            /\ pc' = SafetyCheck(sig, current_position)
            /\ notes' = << >>
            /\ UNCHANGED << retry_count, failStreak, success >>

\* run_once from its first line to the safety check, started by who
RunOnceBody(who, fetched, sig, d) ==
    /\ cycles' = cycles + 1
    /\ caller' = who
    /\ prev' = cyc
    /\ UNCHANGED << balanceCall, breaker, signalCall, retry, dryRun, timeDefined, current_position, inflight, exchBuys,
                    exchSells, ret, openPositions >>
    /\ IF ~fetched
       THEN \* fetch_ohlcv returned None: return False before any signal
            /\ signal' = "none"
            /\ cyc' = [NewOp("cycle", "none") EXCEPT !.finished = TRUE]
            /\ LoopAfter(who, FALSE, << >>, d)
       ELSE /\ signal' = sig
            /\ IF SafetyCheck(sig, current_position) = "return"
               THEN /\ cyc' = [NewOp("cycle", sig) EXCEPT !.finished = TRUE]
                    /\ LoopAfter(who, TRUE, << >>, d)
               ELSE /\ cyc' = NewOp("cycle", sig)
                    /\ pc' = SafetyCheck(sig, current_position)
                    /\ notes' = << >>
                    /\ UNCHANGED << retry_count, failStreak, success >>

\* one cycle of run_loop
RunOnce(fetched, sig, d) ==
    /\ pc = "idle"
    /\ cycles < MaxCycles
    /\ RunOnceBody("loop", fetched, sig, d)

BalanceReplies ==
    {[kind |-> "raise", free |-> 0], [kind |-> "missing", free |-> 0]}
        \cup {[kind |-> "ok", free |-> f] : f \in FreeBalances}

CheckBalance(reply, d) ==
    /\ pc = "balance"
    /\ UNCHANGED << balanceCall, breaker, signalCall, retry, dryRun, timeDefined, current_position, caller, signal, inflight,
                    exchBuys, exchSells, ret, cycles, prev, openPositions >>
    /\ IF check_balance(reply, <<POSITION_SIZE_USDT>>)
       THEN /\ pc' = "buy"
            /\ cyc' = [cyc EXCEPT !.balanceQueries = @ + 1, !.balance = <<reply>>]
            /\ UNCHANGED << retry_count, failStreak, success, notes >>
       ELSE /\ cyc' = [cyc EXCEPT !.balanceQueries = @ + 1, !.balance = <<reply>>,
                                   !.finished = TRUE]
            /\ LoopAfter(caller, TRUE, notes, d)

----------------------------------------------------------------------------
(* The gateway *)

TickerReplies == {[kind |-> "raise", last |-> << >>]}
                     \cup {[kind |-> "ok", last |-> p] : p \in OptPrices}

\* what the caller of fetch_ticker has in hand: an exception, ticker['last'] = None,
\* a zero price, or a price
TickerClass(tick) ==
    CASE tick.kind = "raise" -> "raise"
      [] IsNone(tick.last)   -> "None"
      [] tick.last[1] = 0    -> "zero"
      [] OTHER               -> "price"

\* What the exchange does with an order request and what the client gets back:
\* "order": executed, the order comes back; "insufficient" (ccxt.InsufficientFunds)
\* and "rejected" (another ExchangeError): not executed; "lost": NetworkError, the
\* request never arrived; "timeout": NetworkError after the exchange executed it
GatewayOutcomes == {"order", "insufficient", "rejected", "lost", "timeout"}

Executed(out) == out \in {"order", "timeout"}

\* the order the exchange returns: the requested amount at its own fill price,
\* which it may leave out (None)
ExchangeOrder(seq, price, amount) ==
    [status |-> "OPEN", id |-> <<"EX", seq>>, price |-> price, amount |-> amount]

----------------------------------------------------------------------------
(* place_market_buy *)

\* the dry-run branch: the ticker read, then the simulated order, whose id needs
\* time.time(); nothing of it is inside a try
DryRunBuy(pos, tick, timeOk, clock, amount_usdt, d) ==
    IF tick.kind = "raise" \/ ~timeOk \/ DivisionRaises(tick.last)
    THEN Raise(pos)
    ELSE [Result([status |-> "OPEN", id |-> <<"DRY_RUN", clock>>, price |-> tick.last,
                  amount |-> BuyAmount(amount_usdt, tick.last[1])],
                 "order",
                 << notify_buy_order(tick.last, amount_usdt, TRUE, d) >>)
            EXCEPT !.opened = TRUE]

\* the live branch before the submission: an exception of the ticker read or of
\* the division is caught inside place_market_buy
LiveBuyQuoteFails(tick) == tick.kind = "raise" \/ DivisionRaises(tick.last)

\* a buy that returns the order without recording it
LiveBuyReply_forgets(pos, req, d) ==
    CASE req.reply = "order" ->
            Result(pos, "order", << notify_buy_order(req.quote, req.amount_usdt, FALSE, d) >>)
      [] req.reply = "insufficient" ->
            Result(pos, "None", << notify_error("insufficient funds", d) >>)
      [] OTHER ->
            Result(pos, "None", << notify_error("buy", d) >>)

\* a buy that reports no rejection
LiveBuyReply_silent(pos, req, d) ==
    IF req.reply = "order"
    THEN [Result(req.order, "order",
                 << notify_buy_order(req.quote, req.amount_usdt, FALSE, d) >>)
            EXCEPT !.opened = TRUE]
    ELSE Result(pos, "None", << >>)

\* a buy that records the position it asked for when the answer is lost
LiveBuyReply_optimistic(pos, req, d) ==
    CASE req.reply = "order" ->
            [Result(req.order, "order",
                    << notify_buy_order(req.quote, req.amount_usdt, FALSE, d) >>)
                EXCEPT !.opened = TRUE]
      [] req.reply \in {"lost", "timeout"} ->
            [Result([status |-> "OPEN", id |-> <<"?", 0>>, price |-> req.quote,
                     amount |-> BuyAmount(req.amount_usdt, req.quote[1])],
                    "None", << notify_error("buy", d) >>)
                EXCEPT !.opened = TRUE]
      [] req.reply = "insufficient" ->
            Result(pos, "None", << notify_error("insufficient funds", d) >>)
      [] OTHER ->
            Result(pos, "None", << notify_error("buy", d) >>)

\* a buy that records the position only when its notification was delivered
LiveBuyReply_needsDelivery(pos, req, d) ==
    CASE req.reply = "order" /\ d ->
            [Result(req.order, "order",
                    << notify_buy_order(req.quote, req.amount_usdt, FALSE, d) >>)
                EXCEPT !.opened = TRUE]
      [] req.reply = "order" /\ ~d ->
            Result(pos, "None", << notify_buy_order(req.quote, req.amount_usdt, FALSE, d) >>)
      [] req.reply = "insufficient" ->
            Result(pos, "None", << notify_error("insufficient funds", d) >>)
      [] OTHER ->
            Result(pos, "None", << notify_error("buy", d) >>)

\* the live branch after create_market_buy_order answered
LiveBuyReply(pos, req, d) ==
    CASE req.reply = "order" ->
            [Result(req.order, "order",
                    << notify_buy_order(req.quote, req.amount_usdt, FALSE, d) >>)
                EXCEPT !.opened = TRUE]
      [] req.reply = "insufficient" ->
            Result(pos, "None", << notify_error("insufficient funds", d) >>)
      [] OTHER ->
            Result(pos, "None", << notify_error("buy", d) >>)

PlaceMarketBuy(tick, out, fill, d) ==
    /\ pc = "buy"
    /\ UNCHANGED << balanceCall, breaker, signalCall, retry, dryRun, timeDefined, caller, signal, exchSells, cycles, prev >>
    /\ IF dryRun
       THEN /\ cyc' = [cyc EXCEPT !.finished = TRUE, !.ticker = TickerClass(tick)]
            /\ UNCHANGED exchBuys
            /\ Complete(caller,
                        DryRunBuy(current_position, tick, timeDefined, cycles,
                                  POSITION_SIZE_USDT, d), d)
       ELSE IF LiveBuyQuoteFails(tick)
       THEN /\ cyc' = [cyc EXCEPT !.finished = TRUE, !.ticker = TickerClass(tick)]
            /\ UNCHANGED exchBuys
            /\ Complete(caller,
                        Result(current_position, "None", << notify_error("buy", d) >>), d)
       ELSE /\ pc' = "buy_wait"
            /\ cyc' = [cyc EXCEPT !.buySubmits = @ + 1, !.key = RequestKey(cycles),
                                   !.ticker = TickerClass(tick)]
            /\ exchBuys' = exchBuys + (IF Executed(out) THEN 1 ELSE 0)
            /\ inflight' =
                 [side |-> "buy", reply |-> out, key |-> RequestKey(cycles),
                  quote |-> tick.last,
                  amount_usdt |-> POSITION_SIZE_USDT,
                  order |-> IF out = "order"
                            THEN ExchangeOrder(exchBuys + exchSells + 1, fill,
                                     BuyAmount(POSITION_SIZE_USDT, tick.last[1]))
                            ELSE NONE]
                    /\ UNCHANGED << current_position, retry_count, failStreak, notes, ret, success,
                            openPositions >>

BuyReturn(d) ==
    /\ pc = "buy_wait"
    /\ cyc' = [cyc EXCEPT !.reply = inflight.reply, !.finished = TRUE]
    /\ UNCHANGED << balanceCall, breaker, signalCall, retry, dryRun, timeDefined, caller, signal, exchBuys, exchSells,
                    cycles, prev >>
    /\ Complete(caller, LiveBuyReply(current_position, inflight, d), d)

----------------------------------------------------------------------------
(* place_market_sell *)

\* `self.current_position.get('amount', 0)` raises AttributeError on None
AmountReadRaises(pos) == pos = NONE

\* a simulated sell that leaves the position in place
DryRunSell_keeps(pos, tick, timeOk, d) ==
    IF tick.kind = "raise" \/ ProfitRaises(tick.last, pos.price) \/ ~timeOk
    THEN Raise(pos)
    ELSE Result(pos, "order",
                << notify_sell_order(tick.last,
                                     ProfitPct(tick.last[1], pos.price[1]), TRUE, d) >>)

\* the dry-run branch: ticker read, profit against the recorded price, simulated
\* order (its id needs time.time()), notification, then the position is cleared;
\* nothing of it is inside a try
DryRunSell(pos, tick, timeOk, d) ==
    IF tick.kind = "raise" \/ ProfitRaises(tick.last, pos.price) \/ ~timeOk
    THEN Raise(pos)
    ELSE [Result(NONE, "order",
                 << notify_sell_order(tick.last,
                                      ProfitPct(tick.last[1], pos.price[1]), TRUE, d) >>)
            EXCEPT !.closed = TRUE]

\* a sell that drops the position whatever the gateway answered
LiveSellReply_clears(pos, req, d) ==
    IF req.reply = "order" /\ ~ProfitRaises(req.order.price, pos.price)
    THEN [Result(NONE, "order",
                 << notify_sell_order(req.order.price,
                        ProfitPct(req.order.price[1], pos.price[1]), FALSE, d) >>)
            EXCEPT !.closed = TRUE]
    ELSE [Result(NONE, "None", << notify_error("sell", d) >>) EXCEPT !.closed = TRUE]

\* a sell that takes the position for sold when the answer is lost
LiveSellReply_optimistic(pos, req, d) ==
    IF req.reply = "order"
    THEN IF ProfitRaises(req.order.price, pos.price)
         THEN Result(pos, "None", << notify_error("sell", d) >>)
         ELSE [Result(NONE, "order",
                      << notify_sell_order(req.order.price,
                             ProfitPct(req.order.price[1], pos.price[1]), FALSE, d) >>)
                 EXCEPT !.closed = TRUE]
    ELSE IF req.reply \in Ambiguous
    THEN [Result(NONE, "None", << notify_error("sell", d) >>) EXCEPT !.closed = TRUE]
    ELSE Result(pos, "None", << notify_error("sell", d) >>)

\* the live branch after create_market_sell_order answered: the profit is computed
\* from order['price'] and the recorded price before the position is cleared, and
\* every exception, of the gateway or of that computation, ends in the same handler
LiveSellReply(pos, req, d) ==
    IF req.reply = "order"
    THEN IF ProfitRaises(req.order.price, pos.price)
         THEN Result(pos, "None", << notify_error("sell", d) >>)
         ELSE [Result(NONE, "order",
                      << notify_sell_order(req.order.price,
                             ProfitPct(req.order.price[1], pos.price[1]), FALSE, d) >>)
                 EXCEPT !.closed = TRUE]
    ELSE Result(pos, "None", << notify_error("sell", d) >>)

PlaceMarketSell(tick, out, fill, d) ==
    /\ pc = "sell"
    /\ UNCHANGED << balanceCall, breaker, signalCall, retry, dryRun, timeDefined, caller, signal, exchBuys, cycles, prev >>
    /\ IF NoPositionToSell(current_position)
       THEN /\ cyc' = [cyc EXCEPT !.finished = TRUE]
            /\ UNCHANGED exchSells
            /\ Complete(caller, Result(current_position, "None", << >>), d)
       ELSE IF AmountReadRaises(current_position)
       THEN /\ cyc' = [cyc EXCEPT !.finished = TRUE]
            /\ UNCHANGED exchSells
            /\ Complete(caller, Raise(current_position), d)
       ELSE IF dryRun
       THEN /\ cyc' = [cyc EXCEPT !.finished = TRUE, !.ticker = TickerClass(tick)]
            /\ UNCHANGED exchSells
            /\ Complete(caller, DryRunSell(current_position, tick, timeDefined, d), d)
       ELSE /\ pc' = "sell_wait"
            /\ cyc' = [cyc EXCEPT !.sellSubmits = @ + 1, !.key = RequestKey(cycles)]
            /\ exchSells' = exchSells + (IF Executed(out) THEN 1 ELSE 0)
            /\ inflight' =
                 [side |-> "sell", reply |-> out, key |-> RequestKey(cycles),
                  amount |-> current_position.amount,
                  order |-> IF out = "order"
                            THEN ExchangeOrder(exchBuys + exchSells + 1, fill,
                                               current_position.amount)
                            ELSE NONE]
                    /\ UNCHANGED << current_position, retry_count, failStreak, notes, ret, success,
                            openPositions >>

SellReturn(d) ==
    /\ pc = "sell_wait"
    /\ cyc' = [cyc EXCEPT !.reply = inflight.reply, !.finished = TRUE]
    /\ UNCHANGED << balanceCall, breaker, signalCall, retry, dryRun, timeDefined, caller, signal, exchBuys, exchSells,
                    cycles, prev >>
    /\ Complete(caller, LiveSellReply(current_position, inflight, d), d)

----------------------------------------------------------------------------
(* The operator's Ctrl+C: KeyboardInterrupt is no Exception, so no handler of
   run_once or of the executor catches it; run_loop breaks wherever it arrives *)

\* a shutdown that forgets the position
KeyboardInterrupt_clears ==
    /\ pc # "stopped"
    /\ caller = "loop"
    /\ pc' = "stopped"
    /\ current_position' = NONE
    /\ UNCHANGED << balanceCall, breaker, signalCall, retry, dryRun, timeDefined, caller, signal, retry_count, failStreak,
                    inflight, exchBuys, exchSells, notes, ret, success, cycles, cyc,
                    prev, openPositions >>

KeyboardInterrupt ==
    /\ pc # "stopped"
    /\ caller = "loop"
    /\ pc' = "stopped"
    /\ UNCHANGED << balanceCall, breaker, signalCall, retry, dryRun, timeDefined, current_position, caller, signal, retry_count, failStreak,
                    inflight, exchBuys, exchSells, notes, ret, success, cycles, cyc,
                    prev, openPositions >>

----------------------------------------------------------------------------
(* Other callers: main() runs run_once on its own in test mode, and the script at
   the end of execution.py, where `time` is bound, calls the executor itself *)

RunOnceAlone(fetched, sig, d) ==
    /\ pc = "idle"
    /\ ~timeDefined
    /\ cycles < MaxCalls
    /\ RunOnceBody("once", fetched, sig, d)

DirectBuy ==
    /\ pc = "idle"
    /\ cycles < MaxCalls
    /\ cycles' = cycles + 1
    /\ caller' = "direct"
    /\ pc' = "buy"
    /\ prev' = cyc
    /\ cyc' = NewOp("buy", "none")
    /\ notes' = << >>
    /\ UNCHANGED << balanceCall, breaker, signalCall, retry, dryRun, timeDefined, current_position, signal, retry_count, failStreak,
                    inflight, exchBuys, exchSells, ret, success, openPositions >>

DirectSell ==
    /\ pc = "idle"
    /\ cycles < MaxCalls
    /\ cycles' = cycles + 1
    /\ caller' = "direct"
    /\ pc' = "sell"
    /\ prev' = cyc
    /\ cyc' = NewOp("sell", "none")
    /\ notes' = << >>
    /\ UNCHANGED << balanceCall, breaker, signalCall, retry, dryRun, timeDefined, current_position, signal, retry_count, failStreak,
                    inflight, exchBuys, exchSells, ret, success, openPositions >>

----------------------------------------------------------------------------
\* the steps inside an operation, whoever started it
Step ==
    \/ \E reply \in BalanceReplies, d \in BOOLEAN : CheckBalance(reply, d)
    \/ \E tick \in TickerReplies, out \in GatewayOutcomes, fill \in OptPrices,
          d \in BOOLEAN : PlaceMarketBuy(tick, out, fill, d)
    \/ \E d \in BOOLEAN : BuyReturn(d)
    \/ \E tick \in TickerReplies, out \in GatewayOutcomes, fill \in OptPrices,
          d \in BOOLEAN : PlaceMarketSell(tick, out, fill, d)
    \/ \E d \in BOOLEAN : SellReturn(d)

Next ==
    \/ \E fetched \in BOOLEAN, sig \in Signals, d \in BOOLEAN : RunOnce(fetched, sig, d)
    \/ Step
    \/ KeyboardInterrupt

Spec == Init /\ [][Next]_vars

----------------------------------------------------------------------------
(* run_loop's own except clause.  run_once catches every Exception the data
   handler, the strategy and the executor raise, so the clause runs only for an
   exception raised outside that try block or in its handler; SpecLoop adds that
   event to the run loop *)

\* `if retry_count < max_retries: ... time.sleep(10)` / `else: ... break`
LoopRetries(rc) == rc < max_retries

\* an exception leaves self.run_once(): `success` is not assigned, run_loop
\* notifies, counts and sleeps 10 s or breaks
RunOnceEscapes(d) ==
    /\ pc = "idle"
    /\ cycles < MaxCycles
    /\ cycles' = cycles + 1
    /\ caller' = "loop"
    /\ prev' = cyc
    /\ cyc' = [NewOp("cycle", "raised") EXCEPT !.finished = TRUE]
    /\ notes' = << notify_error("critical", d) >>
    /\ retry_count' = retry_count + 1
    /\ failStreak' = failStreak + 1
    /\ pc' = IF LoopRetries(retry_count + 1) THEN "idle" ELSE "stopped"
    /\ UNCHANGED << balanceCall, breaker, signalCall, retry, dryRun, timeDefined, current_position, signal, inflight,
                    exchBuys, exchSells, ret, success, openPositions >>

NextLoop ==
    \/ \E fetched \in BOOLEAN, sig \in Signals, d \in BOOLEAN : RunOnce(fetched, sig, d)
    \/ Step
    \/ KeyboardInterrupt
    \/ \E d \in BOOLEAN : RunOnceEscapes(d)

SpecLoop == Init /\ [][NextLoop]_vars

\* the executor used by a single run_once and by direct callers, with `time`
\* bound (execution.py as a script) or not (execution.py imported)
InitAPI ==
    /\ timeDefined \in BOOLEAN
    /\ dryRun \in BOOLEAN
    /\ current_position = NONE
    /\ pc = "idle"
    /\ caller = "direct"
    /\ signal = "WAIT"
    /\ retry_count = 0
    /\ inflight = NoRequest
    /\ exchBuys = 0
    /\ exchSells = 0
    /\ notes = << >>
    /\ ret = "none"
    /\ success = TRUE
    /\ cycles = 0
    /\ cyc = NoOp
    /\ prev = NoOp
    /\ openPositions = 0
    /\ failStreak = 0
    /\ retry = NoRetry
    /\ balanceCall = NoCall
    /\ breaker = NoCall
    /\ signalCall = NoCall

NextAPI ==
    \/ \E fetched \in BOOLEAN, sig \in Signals, d \in BOOLEAN :
          RunOnceAlone(fetched, sig, d)
    \/ DirectBuy
    \/ DirectSell
    \/ Step

SpecAPI == InitAPI /\ [][NextAPI]_vars

----------------------------------------------------------------------------
(* DataHandler.retry_on_network_error(func, max_retries, delay) *)

MaxAttempts == 3     \* largest max_retries a caller passes

\* delays a caller passes (seconds); 10 is the default
Delays == {0, 10}

\* what one call of the wrapped function does: it returns a value, returns None,
\* or raises a ccxt exception
FuncOutcomes ==
    {"value", "None", "NetworkError", "RequestTimeout", "InsufficientFunds", "InvalidOrder"}

Transient == {"NetworkError", "RequestTimeout"}
Rejected == {"InsufficientFunds", "InvalidOrder"}

execVars == << dryRun, timeDefined, current_position, pc, caller, signal, retry_count,
               inflight, exchBuys, exchSells, notes, ret, success, cycles, cyc, prev,
               openPositions, failStreak >>

\* a wrapper that catches every exception
Retryable_any(out) == out \notin {"value", "None"}

\* `except (ccxt.NetworkError, ccxt.RequestTimeout)`
Retryable(out) == out \in Transient

\* a wrapper that re-raises the last network error when the attempts are used up
AfterAttempt_raises(out, attempt, m) ==
    CASE out \in {"value", "None"} -> [pc |-> "returned", result |-> out]
      [] Retryable(out) -> IF attempt < m - 1
                           THEN [pc |-> "sleep", result |-> "pending"]
                           ELSE [pc |-> "raised", result |-> out]
      [] OTHER -> [pc |-> "raised", result |-> out]

\* a wrapper that sleeps after every network error, the last one included
AfterAttempt_sleepsLast(out, attempt, m) ==
    CASE out \in {"value", "None"} -> [pc |-> "returned", result |-> out]
      [] Retryable(out) -> [pc |-> "sleep", result |-> "pending"]
      [] OTHER -> [pc |-> "raised", result |-> out]

\* the body of the loop for one attempt: `return func()`, or the except clause
\* (sleep and go on, or return None after the last attempt), or the exception
\* leaves the wrapper
AfterAttempt(out, attempt, m) ==
    CASE out \in {"value", "None"} -> [pc |-> "returned", result |-> out]
      [] Retryable(out) -> IF attempt < m - 1
                           THEN [pc |-> "sleep", result |-> "pending"]
                           ELSE [pc |-> "returned", result |-> "None"]
      [] OTHER -> [pc |-> "raised", result |-> out]

RetryCalled(m, dl) ==
    [pc |-> "loop", max_retries |-> m, delay |-> dl, attempt |-> 0, calls |-> 0,
     slept |-> << >>, log |-> << >>, result |-> "pending"]

InitRetry ==
    /\ retry \in {RetryCalled(m, dl) : m \in 0..MaxAttempts, dl \in Delays}
    /\ dryRun = TRUE
    /\ timeDefined = FALSE
    /\ current_position = NONE
    /\ pc = "idle"
    /\ caller = "direct"
    /\ signal = "WAIT"
    /\ retry_count = 0
    /\ inflight = NoRequest
    /\ exchBuys = 0
    /\ exchSells = 0
    /\ notes = << >>
    /\ ret = "none"
    /\ success = TRUE
    /\ cycles = 0
    /\ cyc = NoOp
    /\ prev = NoOp
    /\ openPositions = 0
    /\ failStreak = 0
    /\ balanceCall = NoCall
    /\ breaker = NoCall
    /\ signalCall = NoCall

\* `for attempt in range(max_retries)`, and the `return None` after the loop
RetryLoop ==
    /\ retry.pc = "loop"
    /\ retry' = IF retry.attempt < retry.max_retries
                THEN [retry EXCEPT !.pc = "call"]
                ELSE [retry EXCEPT !.pc = "returned", !.result = "None"]
    /\ UNCHANGED << execVars, balanceCall, breaker, signalCall >>

\* one call of func and what the wrapper does with its outcome
RetryCall(out) ==
    /\ retry.pc = "call"
    /\ LET a == AfterAttempt(out, retry.attempt, retry.max_retries)
       IN  retry' = [retry EXCEPT !.calls = @ + 1, !.log = Append(@, out),
                                  !.pc = a.pc, !.result = a.result]
    /\ UNCHANGED << execVars, balanceCall, breaker, signalCall >>

\* time.sleep(delay), then the next iteration
RetrySleep ==
    /\ retry.pc = "sleep"
    /\ retry' = [retry EXCEPT !.slept = Append(@, retry.delay), !.attempt = @ + 1,
                              !.pc = "loop"]
    /\ UNCHANGED << execVars, balanceCall, breaker, signalCall >>

NextRetry ==
    \/ RetryLoop
    \/ \E out \in FuncOutcomes : RetryCall(out)
    \/ RetrySleep

SpecRetry == InitRetry /\ [][NextRetry]_vars

----------------------------------------------------------------------------
(* Functions checked on their own: the bot is constructed and not running *)

NotStarted ==
    /\ dryRun = TRUE
    /\ timeDefined = FALSE
    /\ current_position = NONE
    /\ pc = "idle"
    /\ caller = "direct"
    /\ signal = "WAIT"
    /\ retry_count = 0
    /\ inflight = NoRequest
    /\ exchBuys = 0
    /\ exchSells = 0
    /\ notes = << >>
    /\ ret = "none"
    /\ success = TRUE
    /\ cycles = 0
    /\ cyc = NoOp
    /\ prev = NoOp
    /\ openPositions = 0
    /\ failStreak = 0
    /\ retry = NoRetry

----------------------------------------------------------------------------
(* OrderExecutor.check_balance(currency, required_amount) *)

\* what fetch_balance can give: an exception, a reply without the currency, a
\* reply whose 'free' is None (the log line cannot format it), or a free amount
CheckBalanceReplies == BalanceReplies \cup {[kind |-> "free is None", free |-> 0]}

\* required_amount: not given (None), or an amount at or just above a balance
RequiredAmounts ==
    {<< >>} \cup {<<f>> : f \in FreeBalances} \cup {<<f + 1>> : f \in FreeBalances}

BalanceCalled(reply, required) ==
    [pc |-> "called", reply |-> reply, required |-> required, result |-> FALSE]

InitBalance ==
    /\ NotStarted
    /\ balanceCall \in {BalanceCalled(r, q) : r \in CheckBalanceReplies,
                                               q \in RequiredAmounts}
    /\ breaker = NoCall
    /\ signalCall = NoCall

\* the call runs to its return statement
CheckBalanceReturns ==
    /\ balanceCall.pc = "called"
    /\ balanceCall' = [balanceCall EXCEPT
                          !.pc = "returned",
                          !.result = check_balance(balanceCall.reply,
                                                   balanceCall.required)]
    /\ UNCHANGED << execVars, retry, breaker, signalCall >>

NextBalance == CheckBalanceReturns

SpecBalance == InitBalance /\ [][NextBalance]_vars

----------------------------------------------------------------------------
(* CircuitBreaker (examples/example_system_risks.py) *)

MaxChecks == 5      \* calls of check_network: the example makes 5

max_ping_ms == 200

\* failure_threshold of the constructor; the example uses 2
Thresholds == {1, 2, 3}

\* ping measurements: random.randint(20, 500), around the limit
Pings == {20, max_ping_ms, max_ping_ms + 1, 500}

\* CircuitBreaker(max_ping_ms, failure_threshold) after __init__; calls, ping,
\* streak (calls in a row, up to the last one, whose ping was over the limit),
\* result and was_open (is_open before the last call) record the calls made
CircuitBreaker(mp, ft) ==
    [pc |-> "ready", max_ping_ms |-> mp, failure_threshold |-> ft,
     failure_count |-> 0, is_open |-> FALSE,
     calls |-> 0, ping |-> 0, streak |-> 0, result |-> TRUE, was_open |-> FALSE]

\* a breaker that does not reset on a good ping
check_network_noreset(b, ping_ms) ==
    IF ping_ms > b.max_ping_ms
    THEN IF b.failure_count + 1 >= b.failure_threshold
         THEN [failure_count |-> b.failure_count + 1, is_open |-> TRUE,
               result |-> FALSE]
         ELSE [failure_count |-> b.failure_count + 1, is_open |-> b.is_open,
               result |-> ~b.is_open]
    ELSE [failure_count |-> b.failure_count, is_open |-> b.is_open,
          result |-> ~b.is_open]

\* check_network(ping_ms): the fields after the call and the value returned
check_network(b, ping_ms) ==
    IF ping_ms > b.max_ping_ms
    THEN IF b.failure_count + 1 >= b.failure_threshold
         THEN [failure_count |-> b.failure_count + 1, is_open |-> TRUE,
               result |-> FALSE]
         ELSE [failure_count |-> b.failure_count + 1, is_open |-> b.is_open,
               result |-> ~b.is_open]
    ELSE [failure_count |-> 0, is_open |-> FALSE, result |-> TRUE]

InitBreaker ==
    /\ NotStarted
    /\ breaker \in {CircuitBreaker(max_ping_ms, ft) : ft \in Thresholds}
    /\ balanceCall = NoCall
    /\ signalCall = NoCall

\* one cycle of check_network_and_trade_fixed: measure, ask the breaker
CheckNetwork(ping_ms) ==
    /\ breaker.pc = "ready"
    /\ breaker.calls < MaxChecks
    /\ LET after == check_network(breaker, ping_ms)
       IN  breaker' = [breaker EXCEPT
                          !.failure_count = after.failure_count,
                          !.is_open = after.is_open,
                          !.result = after.result,
                          !.was_open = breaker.is_open,
                          !.calls = @ + 1,
                          !.ping = ping_ms,
                          !.streak = IF ping_ms > breaker.max_ping_ms
                                     THEN @ + 1 ELSE 0]
    /\ UNCHANGED << execVars, retry, balanceCall, signalCall >>

NextBreaker == \E ping_ms \in Pings : CheckNetwork(ping_ms)

SpecBreaker == InitBreaker /\ [][NextBreaker]_vars

----------------------------------------------------------------------------
(* TradingStrategy.check_signal(df) *)

min_bars == 200
rsi_oversold == 30
rsi_overbought == 70

\* a float is << v >>, or NaN (an indicator whose window is not full, or 0/0 in
\* the RSI); every comparison with NaN is False
NaN == << >>
Floats(S) == {NaN} \cup {<<v>> : v \in S}
Gt(x, y) == x # NaN /\ y # NaN /\ x[1] > y[1]
Lt(x, y) == x # NaN /\ y # NaN /\ x[1] < y[1]

\* len(df), or << >> when df is None
BarCounts == {<< >>, <<min_bars - 1>>, <<min_bars>>, <<min_bars + 1>>}
ClosePrices == {<<p>> : p \in Prices \ {0}}
Volumes == {1, 2}
RsiValues == Floats({rsi_oversold - 1, rsi_oversold, rsi_oversold + 1,
                     rsi_overbought - 1, rsi_overbought, rsi_overbought + 1})

\* what check_signal reads of df: its length, the last row (current) and the
\* rsi of the row before it (previous)
DataFrames ==
    [bars : BarCounts, close : ClosePrices, ema_200 : ClosePrices,
     volume : {<<v>> : v \in Volumes}, volume_avg : Floats(Volumes),
     previous_rsi : RsiValues, rsi : RsiValues]

\* a strategy that buys without the volume filter
check_signal_nofilter(df) ==
    IF IsNone(df.bars) \/ df.bars[1] < min_bars
    THEN "WAIT"
    ELSE LET setup_long == Gt(df.close, df.ema_200)
             trigger_buy == Lt(df.previous_rsi, <<rsi_oversold>>)
                               /\ Gt(df.rsi, <<rsi_oversold>>)
             trigger_sell == Gt(df.previous_rsi, <<rsi_overbought>>)
                               /\ Lt(df.rsi, <<rsi_overbought>>)
         IN  IF setup_long /\ trigger_buy THEN "BUY"
             ELSE IF trigger_sell THEN "SELL"
             ELSE "WAIT"

check_signal(df) ==
    IF IsNone(df.bars) \/ df.bars[1] < min_bars
    THEN "WAIT"
    ELSE LET setup_long == Gt(df.close, df.ema_200)
             filter_volume == Gt(df.volume, df.volume_avg)
             trigger_buy == Lt(df.previous_rsi, <<rsi_oversold>>)
                               /\ Gt(df.rsi, <<rsi_oversold>>)
             trigger_sell == Gt(df.previous_rsi, <<rsi_overbought>>)
                               /\ Lt(df.rsi, <<rsi_overbought>>)
         IN  IF setup_long /\ filter_volume /\ trigger_buy THEN "BUY"
             ELSE IF trigger_sell THEN "SELL"
             ELSE "WAIT"

SignalCalled(df) == [pc |-> "called", df |-> df, result |-> "pending"]

InitSignal ==
    /\ NotStarted
    /\ signalCall \in {SignalCalled(df) : df \in DataFrames}
    /\ balanceCall = NoCall
    /\ breaker = NoCall

\* the call runs to its return statement
CheckSignalReturns ==
    /\ signalCall.pc = "called"
    /\ signalCall' = [signalCall EXCEPT !.pc = "returned",
                                        !.result = check_signal(signalCall.df)]
    /\ UNCHANGED << execVars, retry, balanceCall, breaker >>

NextSignal == CheckSignalReturns

SpecSignal == InitSignal /\ [][NextSignal]_vars

----------------------------------------------------------------------------
(* Properties *)

Tracked == current_position # NONE
Rejections == {"insufficient", "rejected"}
IsCycle(op) == op.kind = "cycle"
OneNote(kind) == Len(notes) = 1 /\ notes[1].kind = kind

\* C1: over every sequence of signals and gateway outcomes of the run loop, at most
\* one position is recorded and not cleared: a position is recorded only when
\* none is tracked, and the field tells whether one is.
C1_AtMostOnePosition ==
    /\ openPositions \in {0, 1}
    /\ Tracked <=> openPositions = 1

\* a BUY signal arrived while the one position was tracked
C1_Witness ==
    /\ IsCycle(cyc) /\ cyc.signal = "BUY" /\ cyc.finished
    /\ cyc.posAtStart # NONE /\ openPositions = 1

\* C2: the exchange has never executed more than one buy order beyond the sell
\* orders it executed.
C2_NoDoubleExposure == exchBuys - exchSells <= 1

\* C3 as stated: two consecutive BUY cycles make exactly one buy submission in total.
C3_Original ==
    (IsCycle(prev) /\ prev.signal = "BUY" /\ IsCycle(cyc) /\ cyc.signal = "BUY"
        /\ cyc.finished)
        => prev.buySubmits + cyc.buySubmits = 1

\* C3 amended: when the buy of the first of two consecutive BUY cycles was confirmed
\* filled, the second cycle submits nothing, so the two make exactly one submission.
C3_FilledBuyNotRepeated ==
    (IsCycle(prev) /\ prev.signal = "BUY" /\ prev.reply = "order"
        /\ IsCycle(cyc) /\ cyc.signal = "BUY")
        => /\ cyc.finished
           /\ cyc.buySubmits = 0
           /\ prev.buySubmits + cyc.buySubmits = 1

C3_Witness ==
    /\ IsCycle(prev) /\ prev.signal = "BUY" /\ prev.reply = "order"
    /\ IsCycle(cyc) /\ cyc.signal = "BUY" /\ cyc.finished

\* C4: a BUY signal that arrives while a position is tracked makes no balance query
\* and no submission, and leaves the tracked position as it was.
C4_BuyWhilePositioned ==
    (IsCycle(cyc) /\ cyc.signal = "BUY" /\ cyc.posAtStart # NONE)
        => /\ cyc.finished
           /\ cyc.balanceQueries = 0
           /\ cyc.buySubmits = 0
           /\ inflight = NoRequest
           /\ current_position = cyc.posAtStart

C4_Witness ==
    /\ IsCycle(cyc) /\ cyc.signal = "BUY" /\ cyc.posAtStart # NONE
    /\ cyc.finished /\ pc = "idle"

\* C5: a BUY signal with no position and a free balance below the required
\* notional is rejected: no order is created and the position stays NONE.
C5_InsufficientFunds ==
    (IsCycle(cyc) /\ cyc.signal = "BUY" /\ cyc.posAtStart = NONE
        /\ cyc.balance # << >> /\ cyc.balance[1].kind = "ok"
        /\ cyc.balance[1].free < POSITION_SIZE_USDT)
        => /\ cyc.finished
           /\ cyc.buySubmits = 0
           /\ inflight = NoRequest
           /\ current_position = NONE
           /\ success

\* balance 15 against the required 20
C5_Witness ==
    /\ IsCycle(cyc) /\ cyc.signal = "BUY" /\ cyc.finished
    /\ cyc.balance = << [kind |-> "ok", free |-> 15] >>
    /\ current_position = NONE

\* C6: a SELL with no position tracked is a no-op, through run_once and through a
\* direct call of place_market_sell: nothing is submitted, nothing is notified, the
\* position stays NONE, and the direct call returns None.
C6_SellWithoutPosition ==
    ((IsCycle(cyc) /\ cyc.signal = "SELL") \/ (cyc.kind = "sell" /\ cyc.finished))
        /\ cyc.posAtStart = NONE
        => /\ cyc.finished
           /\ cyc.sellSubmits = 0
           /\ inflight = NoRequest
           /\ notes = << >>
           /\ current_position = NONE
           /\ cyc.kind = "sell" => ret = "None"
           /\ IsCycle(cyc) => success

\* both ways of asking for the sell have happened with no position
C6_Witness ==
    /\ cyc.kind = "sell" /\ cyc.finished /\ cyc.posAtStart = NONE
    /\ IsCycle(prev) /\ prev.signal = "SELL" /\ prev.posAtStart = NONE /\ prev.finished

\* C7: a live buy submitted with no position: when the gateway answers with the
\* filled order the position is that order and one buy notification is sent; when
\* it rejects the order one error notification is sent and the position is NONE.
C7_BuyOutcome ==
    (IsCycle(cyc) /\ cyc.finished /\ cyc.buySubmits = 1 /\ cyc.posAtStart = NONE)
        => /\ cyc.reply = "order" =>
                /\ Tracked
                /\ current_position.id[1] = "EX"
                /\ OneNote("buy") /\ ~notes[1].dry
                /\ ret = "order"
           /\ cyc.reply \in Rejections =>
                /\ current_position = NONE
                /\ OneNote("error")
                /\ ret = "None"

C7_WitnessFilled ==
    /\ IsCycle(cyc) /\ cyc.finished /\ cyc.buySubmits = 1 /\ cyc.reply = "order"
    /\ IsCycle(prev) /\ prev.finished /\ prev.buySubmits = 1 /\ prev.reply \in Rejections

\* C8: whenever the gateway fills the sell of the tracked position, the position is
\* NONE when the sell returns and a sell notification with the profit was sent,
\* whatever prices the order and the recorded entry carry.
C8_FilledSellClears ==
    (IsCycle(cyc) /\ cyc.finished /\ cyc.sellSubmits = 1 /\ cyc.reply = "order")
        => /\ current_position = NONE
           /\ OneNote("sell")

\* C9: a sell the gateway rejects leaves the position as it was recorded (same
\* entry price and quantity) and sends one error notification, and a SELL signal
\* in the next cycle submits the sell again.
C9_RejectedSellKeepsPosition ==
    /\ (IsCycle(cyc) /\ cyc.finished /\ cyc.sellSubmits = 1 /\ cyc.reply \in Rejections)
          => /\ Tracked
             /\ current_position = cyc.posAtStart
             /\ OneNote("error")
    /\ (IsCycle(prev) /\ prev.sellSubmits = 1 /\ prev.reply \in Rejections
          /\ IsCycle(cyc) /\ cyc.signal = "SELL")
          => /\ cyc.posAtStart = prev.posAtStart
             /\ pc = "idle" => cyc.sellSubmits = 1
             /\ cyc.finished => cyc.sellSubmits = 1

\* a rejected sell was followed by a SELL cycle that submitted again
C9_Witness ==
    /\ IsCycle(prev) /\ prev.sellSubmits = 1 /\ prev.reply \in Rejections
    /\ IsCycle(cyc) /\ cyc.signal = "SELL" /\ cyc.finished /\ cyc.sellSubmits = 1

\* the step is the return of a buy the gateway confirmed filled
BuyFillConfirmed == pc = "buy_wait" /\ inflight.side = "buy" /\ inflight.reply = "order"

\* the step is the return of a sell of the tracked quantity the gateway confirmed filled
SellFillConfirmed ==
    /\ pc = "sell_wait" /\ inflight.side = "sell" /\ inflight.reply = "order"
    /\ inflight.amount = current_position.amount

\* C10 as stated: the position goes from NONE to open only in a step where a buy
\* was confirmed filled, and from open to NONE only in a step where a matching
\* sell was confirmed filled.
C10_Original ==
    [][ /\ (~Tracked /\ Tracked') => BuyFillConfirmed
        /\ (Tracked /\ ~Tracked') => SellFillConfirmed ]_vars

\* C10 amended: as stated when orders are live; in dry-run mode the position goes
\* from NONE to open and back only in the step of place_market_buy or
\* place_market_sell that simulates the order.
C10_Lifecycle ==
    [][ /\ (~Tracked /\ Tracked') =>
              IF dryRun THEN pc = "buy" ELSE BuyFillConfirmed
        /\ (Tracked /\ ~Tracked') =>
              IF dryRun THEN pc = "sell" ELSE SellFillConfirmed ]_vars

\* a live position was opened by a filled buy and cleared by a filled sell
C10_Witness ==
    /\ ~dryRun /\ current_position = NONE /\ cyc.posAtStart # NONE
    /\ cyc.sellSubmits = 1 /\ cyc.reply = "order" /\ exchBuys >= 1

\* C11: after a submission that ended with an ambiguous reply the position is not
\* opened on that reply, and no later operation submits an order while the earlier
\* request is unresolved.
C11_NoSubmitWhileUnresolved ==
    /\ (cyc.finished /\ cyc.buySubmits = 1 /\ cyc.reply \in Ambiguous)
          => current_position = cyc.posAtStart
    /\ cyc.unresolved => (cyc.buySubmits = 0 /\ cyc.sellSubmits = 0)

\* C12: when a buy whose reply was ambiguous has ended, the position tells what the
\* exchange did with the request: opened once when the order was executed
\* (reconciled as Filled), NONE when the request never arrived (not found).
C12_ReconciledAfterUnknown ==
    (IsCycle(cyc) /\ cyc.finished /\ cyc.buySubmits = 1 /\ cyc.posAtStart = NONE
        /\ cyc.reply \in Ambiguous)
        => /\ cyc.reply = "timeout" => (Tracked /\ openPositions = 1)
           /\ cyc.reply = "lost" => (current_position = NONE /\ openPositions = 0)

\* C13: the wrapper calls again only after a call that failed with a network error
\* or a timeout; a call that fails in any other way is the last one (the only one
\* when it is the first); there are never more calls than max_retries; and between
\* two calls the wrapper sleeps once, always for the delay it was given.
C13_RetryOnlyTransient ==
    retry.pc # "none" =>
        /\ retry.calls = Len(retry.log)
        /\ retry.calls <= retry.max_retries
        /\ \A i \in 1..(Len(retry.log) - 1) : retry.log[i] \in Transient
        /\ (retry.log # << >> /\ retry.log[Len(retry.log)] \in Rejected)
              => (retry.pc = "raised" /\ retry.result = retry.log[Len(retry.log)])
        /\ (retry.log # << >> /\ retry.log[1] \in Rejected) => retry.calls = 1
        /\ Len(retry.slept) = retry.attempt
        /\ retry.attempt <= retry.calls /\ retry.calls <= retry.attempt + 1
        /\ \A i \in 1..Len(retry.slept) : retry.slept[i] = retry.delay

\* a timeout was retried after the delay, and the rejection that followed was not
C13_Witness ==
    /\ retry.pc = "raised" /\ retry.max_retries = 3 /\ retry.delay = 10
    /\ retry.log = << "RequestTimeout", "InsufficientFunds" >>
    /\ retry.slept = << 10 >>

\* every one of the max_retries calls failed with a network error or a timeout
Exhausted ==
    /\ retry.pc \in {"returned", "raised"}
    /\ Len(retry.log) = retry.max_retries
    /\ \A i \in 1..Len(retry.log) : retry.log[i] \in Transient

\* C15 as stated: when every attempt failed transiently the wrapper returns None,
\* and that result is told apart from a rejection (an exception) and from every
\* successful call.
C15_Original ==
    retry.pc # "none" =>
        /\ Exhausted => (retry.pc = "returned" /\ retry.result = "None")
        /\ retry.pc = "raised" => ~Exhausted
        /\ (retry.pc = "returned" /\ retry.result = "None") => Exhausted

\* C15 amended: when every attempt failed transiently the wrapper returns None; a
\* rejection leaves the wrapper as an exception, a successful call that returns a
\* value gives that value, and None is returned otherwise only when the wrapped
\* function itself returned None.
C15_ExhaustedReturnsNone ==
    retry.pc # "none" =>
        /\ Exhausted => (retry.pc = "returned" /\ retry.result = "None")
        /\ retry.pc = "raised" => (~Exhausted /\ retry.result \in Rejected)
        /\ (retry.pc = "returned" /\ retry.result = "None")
              => (Exhausted \/ retry.log[Len(retry.log)] = "None")
        /\ (retry.pc = "returned" /\ retry.result # "None")
              => (retry.result = "value" /\ retry.log[Len(retry.log)] = "value")

\* three attempts, all failed with a network error or a timeout
C15_Witness ==
    /\ Exhausted /\ retry.max_retries = 3 /\ retry.calls = 3
    /\ retry.result = "None" /\ Len(retry.slept) = 2

\* the operation has submitted an order request
Submitted(op) == op.buySubmits + op.sellSubmits >= 1

\* C14: every request of a trading intent carries the idempotency key of that
\* intent, and the intent of a later operation carries a different key.
C14_IdempotencyKeys ==
    /\ Submitted(cyc) => IsNumber(cyc.key)
    /\ pc \in {"buy_wait", "sell_wait"} => inflight.key = cyc.key
    /\ (Submitted(prev) /\ Submitted(cyc)) => cyc.key # prev.key

\* run_loop has left the loop through the break that follows the notification
LoopReported ==
    /\ pc = "stopped" /\ notes # << >>
    /\ notes[Len(notes)] \in {notify_error("stopped", d) : d \in BOOLEAN}

\* C16: the run loop breaks and reports exactly when the last max_retries (5)
\* cycles all failed: its counter is the number of cycles that failed since the
\* last successful one, and is zero after every successful cycle.
C16_ConsecutiveFailures ==
    /\ retry_count = failStreak
    /\ failStreak <= max_retries
    /\ LoopReported <=> failStreak >= max_retries
    /\ (IsCycle(cyc) /\ cyc.finished /\ success) => retry_count = 0

\* the loop has stopped on the fifth failure in a row
C16_Witness ==
    /\ LoopReported /\ failStreak = max_retries /\ ~success /\ cycles >= max_retries

\* C17: the run loop never stops while a request the gateway has processed is
\* still waiting to be observed: an interrupt during a submission takes effect
\* only after the reply was seen and recorded.
C17_NoStopMidSubmission == pc = "stopped" => inflight = NoRequest

\* C18: a buy operation that starts while a position is tracked, through run_once
\* or through a direct call of place_market_buy, returns no order and leaves the
\* tracked position as it was.
C18_OpenWhileTracked ==
    (cyc.kind \in {"buy", "cycle"} /\ cyc.finished /\ cyc.posAtStart # NONE
        /\ (IsCycle(cyc) => cyc.signal = "BUY"))
        => /\ current_position = cyc.posAtStart
           /\ cyc.kind = "buy" => ret # "order"

InExecutor == pc \in {"buy", "buy_wait", "sell", "sell_wait"}

\* C20: the tracked position changes only in a step of an executor buy or sell;
\* every step of run_once and run_loop outside them leaves it as it was.
C20_OnlyExecutorWrites ==
    [][ current_position' # current_position => InExecutor ]_vars

\* run_once ran a whole cycle with a position tracked and left it in place
C20_Witness ==
    /\ Tracked /\ IsCycle(cyc) /\ cyc.finished /\ cyc.signal = "WAIT"
    /\ cyc.posAtStart = current_position /\ pc = "idle"

\* C21: a cycle whose order submission was answered has sent exactly one
\* notification, the one that matches the answer: a buy notification for a filled
\* buy, a sell notification for a filled sell, an error notification otherwise.
C21_MatchingNotification ==
    (IsCycle(cyc) /\ cyc.finished /\ Submitted(cyc)) =>
        /\ (cyc.buySubmits = 1 /\ cyc.reply = "order") => OneNote("buy")
        /\ (cyc.sellSubmits = 1 /\ cyc.reply = "order") => OneNote("sell")
        /\ cyc.reply # "order" => OneNote("error")

\* what the caller of the executor gets with result r
RetOf(r) == IF r.raised THEN "raised" ELSE r.ret

\* the step ends an executor operation the way result r says: the position, the
\* value returned, and what run_once and run_loop make of it
SameDecision(r) ==
    /\ current_position' = r.pos
    /\ ret' = RetOf(r)
    /\ caller # "direct" => success' = ~r.raised
    /\ retry_count' = IF caller = "loop" THEN NextRetryCount(~r.raised, retry_count)
                                          ELSE retry_count
    /\ inflight' = NoRequest

\* C22: whether notifications are delivered changes no trading decision: in every
\* step that ends a buy or a sell, the position recorded, the value returned and
\* the result of the cycle are the ones the step gives with the notification
\* delivered and the ones it gives with the notification failing; the step that
\* submits an order sends no notification at all.
C22_NotifyIndependence ==
    [][ \A d \in BOOLEAN :
          /\ pc = "buy_wait" => SameDecision(LiveBuyReply(current_position, inflight, d))
          /\ pc = "sell_wait" => SameDecision(LiveSellReply(current_position, inflight, d))
          /\ (pc = "buy" /\ dryRun) =>
                \E tick \in TickerReplies :
                    SameDecision(DryRunBuy(current_position, tick, timeDefined, cycles,
                                           POSITION_SIZE_USDT, d))
          /\ (pc = "sell" /\ dryRun /\ Tracked) =>
                \E tick \in TickerReplies :
                    SameDecision(DryRunSell(current_position, tick, timeDefined, d))
          /\ pc' \in {"buy_wait", "sell_wait"} =>
                (notes' = notes /\ current_position' = current_position) ]_vars

\* a filled buy was recorded and returned although its notification was not delivered
C22_Witness ==
    /\ Tracked /\ ret = "order" /\ cyc.finished /\ cyc.reply = "order"
    /\ OneNote("buy") /\ ~notes[1].delivered

\* C23: a cycle whose signal is WAIT ends at once as a successful cycle: no balance
\* query, no submission, no notification, the position as it was.
C23_WaitIsNoOp ==
    (IsCycle(cyc) /\ cyc.signal = "WAIT") =>
        /\ cyc.finished
        /\ cyc.balanceQueries = 0 /\ cyc.ticker = "unread"
        /\ ~Submitted(cyc) /\ inflight = NoRequest
        /\ notes = << >>
        /\ current_position = cyc.posAtStart
        /\ success /\ retry_count = 0

\* a WAIT cycle right after the cycle that bought the position
C23_Witness ==
    /\ IsCycle(cyc) /\ cyc.signal = "WAIT" /\ cyc.finished /\ Tracked /\ pc = "idle"
    /\ IsCycle(prev) /\ prev.buySubmits = 1 /\ prev.reply = "order"

\* the cycle was rejected by a check of run_once: BUY with a position, SELL with
\* none, BUY with a free balance below the notional
ValidationRejected(op) ==
    /\ IsCycle(op) /\ op.finished
    /\ \/ op.signal = "BUY" /\ op.posAtStart # NONE
       \/ op.signal = "SELL" /\ op.posAtStart = NONE
       \/ /\ op.signal = "BUY" /\ op.balance # << >> /\ op.balance[1].kind = "ok"
          /\ op.balance[1].free < POSITION_SIZE_USDT

\* C24: a cycle rejected by validation is no failure: run_once returns True,
\* run_loop's counter is zero afterwards, nothing was submitted, and the loop has
\* not stopped on the failure threshold.
C24_ValidationIsNoFailure ==
    ValidationRejected(cyc) =>
        /\ success
        /\ retry_count = 0
        /\ ~Submitted(cyc)
        /\ ~LoopReported

\* a failed cycle (retry_count 1) was followed by a cycle rejected for
\* insufficient funds, which reset the counter; the loop is ready for the next
C24_Witness ==
    /\ IsCycle(prev) /\ prev.finished /\ prev.signal = "none"
    /\ ValidationRejected(cyc) /\ cyc.balance # << >>
    /\ retry_count = 0 /\ pc = "idle"

\* the fraction f has the value v
FracIs(f, v) == f.den # 0 /\ f.num = v * f.den

\* C25: the profit reported with a filled sell is (exit - entry) / entry * 100,
\* entry being the price recorded when the position was opened and exit the price
\* of the sell order; entry 50000, exit 51500 give +3 and entry 100, exit 97 give -3.
C25_ProfitPct ==
    /\ FracIs(ProfitPct(51500, 50000), 3)
    /\ FracIs(ProfitPct(97, 100), -3)
    /\ (IsCycle(cyc) /\ cyc.finished /\ cyc.sellSubmits = 1 /\ OneNote("sell")) =>
          LET entry == cyc.posAtStart.price[1]
              exit  == notes[1].info[1][1]
              p     == notes[1].info[2]
          IN  /\ p.den # 0
              /\ p.num * entry = (exit - entry) * 100 * p.den
              /\ (entry = 100 /\ exit = 97) => FracIs(p, -3)

\* a position entered at 100 was sold at 97 and the notification reports -3
C25_Witness ==
    /\ IsCycle(cyc) /\ cyc.finished /\ cyc.sellSubmits = 1 /\ OneNote("sell")
    /\ cyc.posAtStart.price = << 100 >> /\ notes[1].info[1] = << 97 >>
    /\ FracIs(notes[1].info[2], -3)

\* C26: the position opened by a filled notional buy records the fill price the
\* gateway reported and the quantity notional / fill price.
C26_QuantityFromFill ==
    (IsCycle(cyc) /\ cyc.finished /\ cyc.buySubmits = 1 /\ cyc.reply = "order"
        /\ Tracked /\ IsNumber(current_position.price) /\ current_position.price[1] # 0)
        => /\ current_position.amount.den # 0
           /\ current_position.amount.num * current_position.price[1]
                 = POSITION_SIZE_USDT * current_position.amount.den

\* C27: in dry-run mode a BUY cycle of the run loop whose ticker read gave a price
\* creates no order at the exchange, records the simulated position (price = the
\* ticker price, amount = amount_usdt / price), sends one dry-run buy
\* notification and returns the simulated order; has_open_position is true after.
C27_DryRunBuyFromLoop ==
    (dryRun /\ IsCycle(cyc) /\ cyc.signal = "BUY" /\ cyc.finished
        /\ cyc.ticker = "price")
        => /\ ~Submitted(cyc) /\ exchBuys = 0
           /\ has_open_position(current_position)
           /\ current_position.id[1] = "DRY_RUN"
           /\ current_position.amount
                 = BuyAmount(POSITION_SIZE_USDT, current_position.price[1])
           /\ OneNote("buy") /\ notes[1].dry /\ notes[1].info[1] = current_position.price
           /\ ret = "order"

\* the operation called place_market_sell
SellCalled(op) == op.kind = "sell" \/ (IsCycle(op) /\ op.signal = "SELL")

\* C28: in dry-run mode a sell with a position tracked, whose ticker read gave a
\* price, creates no order at the exchange, sends one dry-run sell notification
\* with the profit of the ticker price against the recorded entry price, clears
\* the position and returns the simulated order.
C28_DryRunSell ==
    (dryRun /\ SellCalled(cyc) /\ cyc.finished /\ cyc.posAtStart # NONE
        /\ cyc.ticker \in {"price", "zero"})
        => /\ ~Submitted(cyc) /\ exchSells = 0 /\ inflight = NoRequest
           /\ current_position = NONE
           /\ OneNote("sell") /\ notes[1].dry
           /\ notes[1].info[2]
                 = ProfitPct(notes[1].info[1][1], cyc.posAtStart.price[1])
           /\ notes[1].info[2].num * cyc.posAtStart.price[1]
                 = (notes[1].info[1][1] - cyc.posAtStart.price[1]) * 100
                       * notes[1].info[2].den
           /\ ret = "order"

\* a simulated position entered at 100 was sold at a ticker price of 97
C28_Witness ==
    /\ dryRun /\ cyc.kind = "sell" /\ cyc.finished /\ cyc.ticker = "price"
    /\ cyc.posAtStart # NONE /\ cyc.posAtStart.price = << 100 >>
    /\ current_position = NONE /\ OneNote("sell") /\ notes[1].info[1] = << 97 >>

\* the operation called place_market_buy (its first statement reads the ticker)
BuyCalled(op) ==
    /\ op.ticker # "unread"
    /\ op.kind = "buy" \/ (IsCycle(op) /\ op.signal = "BUY")

\* C29: when a call of place_market_buy has ended, it returned an order exactly
\* when it recorded a position; when it returned None the position is the one
\* from before the call and one error notification was sent.
C29_ReturnIffRecorded ==
    (BuyCalled(cyc) /\ cyc.finished) =>
        /\ ret = "order" <=> current_position # cyc.posAtStart
        /\ ret = "order" => Tracked
        /\ ret = "None" => (current_position = cyc.posAtStart /\ OneNote("error"))

\* a rejected buy returned None after an earlier call had returned its order
C29_Witness ==
    /\ BuyCalled(cyc) /\ cyc.finished /\ cyc.reply \in Rejections /\ ret = "None"
    /\ BuyCalled(prev) /\ prev.reply = "order" /\ current_position = cyc.posAtStart

\* C30: the exchange has never executed more sell orders than buy orders.
C30_SellsWithinBuys == exchSells <= exchBuys

\* the cycle went past run_once's checks and called the executor
ExecutorCalled(op) ==
    /\ IsCycle(op)
    /\ \/ /\ op.signal = "BUY" /\ op.posAtStart = NONE /\ op.balance # << >>
          /\ check_balance(op.balance[1], <<POSITION_SIZE_USDT>>)
       \/ op.signal = "SELL" /\ op.posAtStart # NONE

\* C31: a cycle whose order submission failed (place_market_buy or
\* place_market_sell returned None) is reported by run_once as successful and
\* resets run_loop's counter, so rejected orders never make the run loop stop.
C31_FailedOrderIsSuccess ==
    (ExecutorCalled(cyc) /\ cyc.finished /\ ret = "None") =>
        /\ success
        /\ retry_count = 0
        /\ failStreak = 0
        /\ ~LoopReported

\* a cycle that failed on the data fetch (counter 1) was followed by a cycle whose
\* order the gateway rejected, and the counter is back at zero
C31_Witness ==
    /\ IsCycle(prev) /\ prev.finished /\ prev.signal = "none"
    /\ ExecutorCalled(cyc) /\ cyc.finished /\ ret = "None"
    /\ cyc.reply \in Rejections /\ Submitted(cyc)
    /\ retry_count = 0 /\ pc = "idle"

\* C32: when fetch_ohlcv returns None, run_once returns False without computing a
\* signal, without a balance query and without calling the executor, and the
\* position is the one from before the cycle.
C32_FetchFailureIsNoOp ==
    (IsCycle(cyc) /\ cyc.signal = "none") =>
        /\ cyc.finished
        /\ signal = "none"
        /\ ~success
        /\ retry_count >= 1
        /\ cyc.balanceQueries = 0
        /\ cyc.ticker = "unread"
        /\ cyc.buySubmits = 0 /\ cyc.sellSubmits = 0
        /\ inflight = NoRequest
        /\ notes = << >> \/ LoopReported
        /\ current_position = cyc.posAtStart

\* the fetch failed in the cycle after the one that bought: the position is still
\* tracked, the counter stands at 1 and the loop goes on
C32_Witness ==
    /\ IsCycle(cyc) /\ cyc.signal = "none" /\ cyc.finished
    /\ prev.buySubmits = 1 /\ prev.reply = "order"
    /\ current_position # NONE /\ current_position = cyc.posAtStart
    /\ ~success /\ retry_count = 1 /\ pc = "idle"

\* the balance query raised, or its reply has no entry for the currency
BalanceUnreadable(op) ==
    /\ IsCycle(op) /\ op.signal = "BUY"
    /\ op.balance # << >> /\ op.balance[1].kind \in {"raise", "missing"}

\* C33: check_balance fails closed: when the balance query raises or the currency
\* is missing from the reply it returns False, so the BUY cycle submits no order
\* and leaves the position NONE.
C33_BalanceFailsClosed ==
    /\ \A reply \in BalanceReplies : reply.kind # "ok" =>
            ~check_balance(reply, <<POSITION_SIZE_USDT>>)
    /\ BalanceUnreadable(cyc) =>
            /\ cyc.finished
            /\ cyc.balanceQueries = 1
            /\ cyc.ticker = "unread"
            /\ cyc.buySubmits = 0 /\ cyc.sellSubmits = 0
            /\ inflight = NoRequest
            /\ current_position = NONE

\* a BUY cycle whose balance query raised has ended with nothing submitted
C33_Witness ==
    /\ BalanceUnreadable(cyc) /\ cyc.balance[1].kind = "raise"
    /\ cyc.finished /\ cyc.buySubmits = 0
    /\ current_position = NONE /\ pc = "idle"

\* the wrapper has ended, by a return or by an exception
RetryEnded == retry.pc \in {"returned", "raised"}

\* C35: retry_on_network_error calls the function at most max_retries times,
\* stops and returns its result at the first call that does not raise, sleeps the
\* delay only between attempts (never after the last one), and returns None
\* after max_retries consecutive network failures.
C35_BoundedRetries ==
    retry.pc # "none" =>
        /\ retry.calls = Len(retry.log)
        /\ retry.calls <= retry.max_retries
        /\ \A i \in 1..Len(retry.log) :
              retry.log[i] \in {"value", "None"} =>
                  /\ i = Len(retry.log)
                  /\ retry.pc = "returned"
                  /\ retry.result = retry.log[i]
        /\ \A i \in 1..Len(retry.slept) : retry.slept[i] = retry.delay
        /\ Len(retry.slept) <= retry.calls
        /\ retry.max_retries > 0 => Len(retry.slept) < retry.max_retries
        /\ (RetryEnded /\ retry.calls > 0) => Len(retry.slept) = retry.calls - 1
        /\ Exhausted => (retry.pc = "returned" /\ retry.result = "None")

\* three calls, the first two failed on the network and were each followed by one
\* sleep of 10 s, the third returned a value at once
C35_Witness ==
    /\ retry.max_retries = 3 /\ retry.delay = 10
    /\ retry.log = << "NetworkError", "RequestTimeout", "value" >>
    /\ retry.slept = << 10, 10 >>
    /\ retry.pc = "returned" /\ retry.result = "value"

\* every cycle started so far has ended as a failure, on either path
AllCyclesFailed == cycles >= 1 /\ failStreak = cycles

\* C36: in every state of run_loop the counter is between 0 and 5, no cycle
\* starts with the counter at 5, and when every cycle fails the loop ends after
\* exactly 5 cycles, whether a failure is run_once returning False or an
\* exception that reaches run_loop.
C36_CounterBounded ==
    /\ retry_count \in 0..max_retries
    /\ retry_count = failStreak
    /\ pc # "stopped" => retry_count < max_retries
    /\ retry_count = max_retries => pc = "stopped"
    /\ AllCyclesFailed =>
          /\ cycles <= max_retries
          /\ retry_count = cycles
          /\ cycles = max_retries => pc = "stopped"

\* five cycles, all failed, the fourth by run_once returning False after a failed
\* fetch and the fifth by an exception in run_loop: the loop has stopped
C36_Witness ==
    /\ AllCyclesFailed /\ cycles = max_retries /\ retry_count = max_retries
    /\ prev.signal = "none" /\ cyc.signal = "raised"
    /\ pc = "stopped"

\* C34: with a required amount given, zero included, check_balance returns True
\* exactly when the free balance is at least the required amount; a free
\* balance equal to the required amount is enough.
C34_TrueIffEnough ==
    (balanceCall.pc = "returned" /\ balanceCall.reply.kind = "ok"
        /\ IsNumber(balanceCall.required))
        => (balanceCall.result <=> balanceCall.reply.free >= balanceCall.required[1])

\* the last ping was over the limit
PingExceeded == breaker.ping > breaker.max_ping_ms

\* C37: after every call, check_network has returned False exactly when the
\* ping was over max_ping_ms and at least failure_threshold calls in a row,
\* ending with this one, were over it; is_open implies failure_count >=
\* failure_threshold; one call with a ping at or under the limit resets
\* failure_count to 0 and closes the breaker.
C37_CircuitBreaker ==
    (breaker.pc = "ready" /\ breaker.calls >= 1) =>
        /\ ~breaker.result <=>
              (PingExceeded /\ breaker.streak >= breaker.failure_threshold)
        /\ breaker.is_open => breaker.failure_count >= breaker.failure_threshold
        /\ breaker.failure_count = breaker.streak
        /\ ~PingExceeded =>
              (breaker.failure_count = 0 /\ ~breaker.is_open /\ breaker.result)

\* a breaker with threshold 2 was open after two slow pings and one ping at the
\* limit closed it
C37_Witness ==
    /\ breaker.pc = "ready" /\ breaker.failure_threshold = 2
    /\ breaker.calls = 3 /\ breaker.was_open
    /\ breaker.ping = breaker.max_ping_ms
    /\ breaker.failure_count = 0 /\ ~breaker.is_open /\ breaker.result

\* the conditions of C38 on the data frame df
TooFewBars(df) == IsNone(df.bars) \/ df.bars[1] < 200
CrossedUp30(df) == Lt(df.previous_rsi, <<30>>) /\ Gt(df.rsi, <<30>>)
CrossedDown70(df) == Gt(df.previous_rsi, <<70>>) /\ Lt(df.rsi, <<70>>)
BuyConditions(df) ==
    /\ Gt(df.close, df.ema_200)
    /\ Gt(df.volume, df.volume_avg)
    /\ CrossedUp30(df)

\* C38: check_signal returns exactly one of BUY, SELL and WAIT: WAIT whenever
\* there are fewer than 200 bars; BUY only when close > EMA-200, volume > its
\* average and the RSI crossed up through 30 from the previous bar to the
\* current one; SELL whenever the RSI crossed down through 70, whatever trend
\* and volume are; the BUY and the SELL conditions never hold together.
C38_SignalRules ==
    signalCall.pc = "returned" =>
        LET df == signalCall.df
            r  == signalCall.result
        IN  /\ r \in {"BUY", "SELL", "WAIT"}
            /\ TooFewBars(df) => r = "WAIT"
            /\ r = "BUY" => (~TooFewBars(df) /\ BuyConditions(df))
            /\ (~TooFewBars(df) /\ CrossedDown70(df)) => r = "SELL"
            /\ r = "SELL" => CrossedDown70(df)
            /\ ~(BuyConditions(df) /\ CrossedDown70(df))

\* 200 bars, the RSI fell from 71 to 69 while the close is under the EMA-200
\* and the volume under its average: SELL
C38_Witness ==
    /\ signalCall.pc = "returned" /\ signalCall.result = "SELL"
    /\ signalCall.df.bars = <<200>>
    /\ signalCall.df.previous_rsi = <<71>> /\ signalCall.df.rsi = <<69>>
    /\ Lt(signalCall.df.close, signalCall.df.ema_200)
    /\ Lt(signalCall.df.volume, signalCall.df.volume_avg)
====
